---- MODULE Spec2Model ----
(***************************************************************************)
(* Inventory ledger of zaiko-app: the App component's state (materials,    *)
(* recipes, salesLog and the three next-id counters), its handlers, the    *)
(* initial load from localStorage and the backup import of Settings.       *)
(*                                                                         *)
(* Quantities (stock, consumed, recipe item qty, sale qty, soldCount) are   *)
(* JavaScript numbers and may be fractional (the seed recipes use 0.5,     *)
(* 0.7, 0.8; handleSellRecipe takes any number); they are kept here as     *)
(* integers counted in tenths, which is exact arithmetic.  SpecNumber      *)
(* holds stock, consumed and item qty as the doubles they are, with the    *)
(* rounding of every sum and difference.  Ids and prices are plain         *)
(* integers, a timestamp is a count of hours.                              *)
(***************************************************************************)
EXTENDS Integers, Sequences, FiniteSets, TLC

VARIABLES pc, materials, recipes, salesLog,
          nextMaterialId, nextRecipeId, nextSaleId,
          stored, lastOp,
          filterType, startDate, endDate,
          issued, parsed, pending

vars == <<pc, materials, recipes, salesLog,
          nextMaterialId, nextRecipeId, nextSaleId, stored, lastOp,
          filterType, startDate, endDate, issued, parsed, pending>>

(* the state of StatsView *)
view == <<filterType, startDate, endDate>>

ledger == <<materials, recipes, salesLog,
            nextMaterialId, nextRecipeId, nextSaleId>>

(* ------------------------------ bounds --------------------------------- *)
(* the handlers that allocate an id are not explored once the three        *)
(* collections have reached ids that add up to MaxAllocations (by their    *)
(* counters, or by the ids they held before the page was opened again),    *)
(* and no material is stocked in, or consumed, past MaxStock whole units   *)
MaxAllocations == 5
MaxStock == 2

Max(a, b) == IF a > b THEN a ELSE b

CanAllocate ==
  Max(nextMaterialId - 1, issued.materials) + Max(nextRecipeId - 1, issued.recipes)
    + Max(nextSaleId - 1, issued.sales) < MaxAllocations

(* The value parseInt / parseFloat give for text that is no number. *)
NaN == -1000

isNaN(x) == x = NaN

(* A field a stored record does not have. *)
Undefined == -2000

(* x ?? d *)
NullishOr(x, d) == IF x = Undefined THEN d ELSE x

(* x || 0 on a number or undefined *)
OrZero(x) == IF x = Undefined \/ isNaN(x) THEN 0 ELSE x

(* a * b for a quantity a and a quantity b, both in tenths, in tenths; the *)
(* same for a quantity and a price, in the unit of the price.  Every       *)
(* product taken in a reachable state is a whole number of tenths.         *)
Times(a, b) == (a * b) \div 10

(* new Date(), getTodayKey(): the day the page is used on, as a day number *)
Today == 2

(* a timestamp: the hours since the start of day 0 *)
At(day, hour) == day * 24 + hour

(* new Date() in handleSellRecipe: the clock stands at noon of Today *)
Now == At(Today, 12)

(* ------------------------------ helpers -------------------------------- *)
Range(s) == {s[i] : i \in 1..Len(s)}

Ids(coll) == {coll[i].id : i \in 1..Len(coll)}

(* the smallest member of a non-empty set of indices, 0 for the empty set *)
FirstOf(hits) == IF hits = {} THEN 0 ELSE CHOOSE i \in hits : \A j \in hits : i <= j

(* materials.find(m => m.id === materialId): the index of the first        *)
(* Material with the id, 0 when there is none                              *)
FindMaterial(ms, materialId) == FirstOf({k \in 1..Len(ms) : ms[k].id = materialId})

(* recipe.items.find(i => i.materialId === id): the index of the first     *)
(* item listing the Material, 0 when there is none                         *)
FindItem(items, id) == FirstOf({k \in 1..Len(items) : items[k].materialId = id})

(* Math.max(...coll.map(x => x.id), 0) *)
RECURSIVE MathMaxId(_)
MathMaxId(coll) ==
  IF coll = <<>> THEN 0
  ELSE LET rest == MathMaxId(Tail(coll))
       IN IF Head(coll).id > rest THEN Head(coll).id ELSE rest

(* ------------------------- construction state -------------------------- *)
Mat(id, stock, consumed) == [id |-> id, stock |-> stock, consumed |-> consumed]
Item(materialId, qty) == [materialId |-> materialId, qty |-> qty]
Rec(id, name, price, items, soldCount) ==
  [id |-> id, name |-> name, price |-> price, items |-> items, soldCount |-> soldCount]
Sale(id, recipeId, qty, pricePerUnit, timestamp) ==
  [id |-> id, recipeId |-> recipeId, qty |-> qty, pricePerUnit |-> pricePerUnit,
   timestamp |-> timestamp]

DefaultMaterials ==
  << Mat(1, 500, 100), Mat(2, 300, 50), Mat(3, 400, 80), Mat(4, 1000, 200) >>

DefaultRecipes ==
  << Rec(1, "butatama", 600, << Item(1, 10), Item(2, 5), Item(3, 10) >>, 30),
     Rec(2, "yakisoba", 750, << Item(4, 10), Item(3, 8), Item(2, 7), Item(1, 5) >>, 50) >>

DefaultSalesLog ==
  << Sale(1, 1, 10, 600, At(Today, 8)), Sale(2, 2, 10, 750, At(Today, 8)),
     Sale(3, 1, 20, 600, At(Today, 9)), Sale(4, 2, 10, 750, At(Today, 9)),
     Sale(5, 1, 10, 600, At(Today, 10)), Sale(6, 2, 20, 750, At(Today, 10)),
     Sale(7, 1, 10, 600, At(Today, 11)), Sale(8, 2, 10, 750, At(Today, 12)),
     Sale(9, 1, 30, 600, At(Today, 13)), Sale(10, 2, 20, 750, At(Today, 13)),
     Sale(11, 1, 10, 600, At(Today, 14)), Sale(12, 2, 10, 750, At(Today, 14)) >>

DefaultNextMaterialId == 5
DefaultNextRecipeId == 3
DefaultNextSaleId == 13

(* ---------------------------- localStorage ----------------------------- *)
(* What localStorage holds under a key: nothing, text JSON.parse throws    *)
(* on, the JSON of a value that is no array, or the JSON of an array.      *)
Absent == [raw |-> "null", value |-> <<>>]
Unparsable == [raw |-> "garbage", value |-> <<>>]
NotASequence == [raw |-> "object", value |-> <<>>]
Present(v) == [raw |-> "array", value |-> v]

(* loadFromStorage(key, fallback) *)
loadFromStorage(entry, fallback) ==
  IF entry.raw = "null" THEN fallback
  ELSE IF entry.raw = "garbage" THEN fallback
  ELSE IF entry.raw = "array" THEN entry.value ELSE fallback

(* parsed holds newMaterials, newRecipes and newSalesLog of a run of       *)
(* Settings.handleImport; no run of it is under way                        *)
NoArchive == [materials |-> <<>>, recipes |-> <<>>, sales |-> <<>>]

(* the three save effects, run after every render that changed a collection *)
Saved(m, r, s) == [materials |-> Present(m), recipes |-> Present(r), sales |-> Present(s)]

(* What the last handler run reported: the kind of its alert(), "none" for *)
(* a run that raised none.                                                 *)
Op(op, alert) == alert

(* issued keeps the largest id each collection has held since the ledger   *)
(* was last restored from a backup; a handler that hands out an id brings  *)
(* it up to the id handed out (the counter after the step, less one).      *)
(* the record started anew over the collections a restore brings in *)
Restored(m, r, s) ==
  [materials |-> MathMaxId(m), recipes |-> MathMaxId(r), sales |-> MathMaxId(s)]

(* the record brought up to date with the collections a load brings in *)
Issued(m, r, s) ==
  [materials |-> Max(issued.materials, MathMaxId(m)),
   recipes |-> Max(issued.recipes, MathMaxId(r)),
   sales |-> Max(issued.sales, MathMaxId(s))]

(* ------------------------ inputs of the handlers ----------------------- *)
(* parseInt of the stock field of the material form *)
StockInputs == {NaN, -10, 0, 10 * MaxStock}

(* parseInt of the stock-in field *)
StockInInputs == {NaN, 0, 10}

(* the qty argument of handleSellRecipe: whole units, and with the         *)
(* negative and the fractional ones                                        *)
SellQtyInputs == {NaN, 0, 10, 20}
AnyQtyInputs == SellQtyInputs \cup {-10, 5}

(* form.name.value.trim() of the recipe form *)
NameInputs == {"", "okonomiyaki"}

(* parseFloat(price) || 0 of the recipe form *)
PriceInputs == {600}

(* the rows of the recipe form after the map of handleSubmit.  A row holds *)
(* the parsed value of the <select> option chosen for it, NaN for the      *)
(* empty option; handleSubmit does not look the id up in materials, and    *)
(* the material chosen may be gone by the time of the submit (an import    *)
(* replaces the materials under the mounted form), so the rows are any     *)
(* rows                                                                    *)
RecipeItemInputs ==
  { <<>>,
    << Item(NaN, 10) >>,
    << Item(1, 0) >>,
    << Item(1, 10), Item(1, 20) >>,
    << Item(1, NaN), Item(1, 10), Item(0, 10), Item(2, 10) >> }

(* ------------------------------ handlers ------------------------------- *)
handleAddMaterial(nameEmpty, stock) ==
  /\ pc = "ready"
  /\ CanAllocate
  /\ IF nameEmpty \/ isNaN(stock) \/ stock < 0
       THEN /\ lastOp' = Op("addMaterial", "InvalidInput")
            /\ UNCHANGED <<materials, nextMaterialId>>
       ELSE /\ materials' = Append(materials, Mat(nextMaterialId, stock, 0))
            /\ nextMaterialId' = nextMaterialId + 1
            /\ lastOp' = Op("addMaterial", "none")
  /\ UNCHANGED <<pc, recipes, salesLog, nextRecipeId, nextSaleId>>
  /\ stored' = Saved(materials', recipes', salesLog')
  /\ issued' = [issued EXCEPT !.materials = Max(@, nextMaterialId' - 1)]
  /\ UNCHANGED <<view, parsed, pending>>

StockedIn(prev, materialId, qty) ==
  [k \in 1..Len(prev) |->
     LET m == prev[k]
     IN IF m.id = materialId THEN [m EXCEPT !.stock = m.stock + qty] ELSE m]

handleStockIn(materialId, qty) ==
  /\ pc = "ready"
  /\ IF isNaN(qty) \/ qty <= 0
       THEN /\ lastOp' = Op("stockIn", "InvalidInput")
            /\ UNCHANGED materials
       ELSE /\ \A m \in Range(materials) : m.id = materialId => m.stock + qty <= 10 * MaxStock
            /\ materials' = StockedIn(materials, materialId, qty)
            /\ lastOp' = Op("stockIn", "none")
  /\ UNCHANGED <<pc, recipes, salesLog, nextMaterialId, nextRecipeId, nextSaleId>>
  /\ stored' = Saved(materials', recipes', salesLog')
  /\ UNCHANGED issued
  /\ UNCHANGED <<view, parsed, pending>>

(* the in-use check looking at the first item of each recipe only *)
isMaterialInUse_FirstItemOnly(materialId) ==
  \E r \in Range(recipes) : Len(r.items) > 0 /\ r.items[1].materialId = materialId

(* recipes.some(recipe => recipe.items.some(item => item.materialId === materialId)) *)
isMaterialInUse(materialId) ==
  \E r \in Range(recipes) : \E item \in Range(r.items) : item.materialId = materialId

MaterialsWithout(prev, materialId) ==
  LET Keep(m) == m.id # materialId IN SelectSeq(prev, Keep)

handleDeleteMaterial(materialId, confirmed) ==
  /\ pc = "ready"
  /\ IF isMaterialInUse(materialId)
       THEN /\ lastOp' = Op("deleteMaterial", "MaterialInUse")
            /\ UNCHANGED materials
       ELSE /\ lastOp' = Op("deleteMaterial", "none")
            /\ materials' = IF confirmed THEN MaterialsWithout(materials, materialId)
                                          ELSE materials
  /\ UNCHANGED <<pc, recipes, salesLog, nextMaterialId, nextRecipeId, nextSaleId>>
  /\ stored' = Saved(materials', recipes', salesLog')
  /\ UNCHANGED issued
  /\ UNCHANGED <<view, parsed, pending>>

(* RecipeForm.handleSubmit: the filter over the mapped rows *)
ValidItems(recipeItems) ==
  LET Valid(item) == /\ ~isNaN(item.materialId)
                     /\ item.materialId # 0
                     /\ ~isNaN(item.qty)
                     /\ item.qty > 0
  IN SelectSeq(recipeItems, Valid)

handleSubmit(name, price, recipeItems) ==
  /\ pc = "ready"
  /\ CanAllocate
  /\ IF name = ""
       THEN /\ lastOp' = Op("addRecipe", "InvalidInput")
            /\ UNCHANGED <<recipes, nextRecipeId>>
       ELSE LET items == ValidItems(recipeItems)
                newRecipe == Rec(nextRecipeId, name, price, items, 0)
            IN IF Len(items) = 0
                 THEN /\ lastOp' = Op("addRecipe", "EmptyRecipe")
                      /\ UNCHANGED <<recipes, nextRecipeId>>
                 ELSE /\ recipes' = Append(recipes, newRecipe)
                      /\ nextRecipeId' = nextRecipeId + 1
                      /\ lastOp' = Op("addRecipe", "none")
  /\ UNCHANGED <<pc, materials, salesLog, nextMaterialId, nextSaleId>>
  /\ stored' = Saved(materials', recipes', salesLog')
  /\ issued' = [issued EXCEPT !.recipes = Max(@, nextRecipeId' - 1)]
  /\ UNCHANGED <<view, parsed, pending>>

(* the validation loop comparing the stock with the per-unit amount *)
InsufficientStock_PerUnit(recipe, qty) ==
  \E i \in 1..Len(recipe.items) :
    LET item == recipe.items[i]
        k == FindMaterial(materials, item.materialId)
    IN k = 0 \/ materials[k].stock < item.qty

(* the validation loop returning after its first item *)
InsufficientStock_FirstItemOnly(recipe, qty) ==
  \E i \in 1..Len(recipe.items) :
    LET item == recipe.items[i]
        k == FindMaterial(materials, item.materialId)
    IN i = 1 /\ (k = 0 \/ materials[k].stock < Times(item.qty, qty))

(* handleSellRecipe, the validation loop: some item's material is missing  *)
(* or holds less than item.qty * qty                                       *)
InsufficientStock(recipe, qty) ==
  \E i \in 1..Len(recipe.items) :
    LET item == recipe.items[i]
        k == FindMaterial(materials, item.materialId)
    IN k = 0 \/ materials[k].stock < Times(item.qty, qty)

(* the updater writing the amount used over consumed *)
Consumed_Overwritten(prev, recipe, qty) ==
  [j \in 1..Len(prev) |->
     LET m == prev[j]
         k == FindItem(recipe.items, m.id)
     IN IF k # 0
          THEN LET used == Times(recipe.items[k].qty, qty)
               IN [m EXCEPT !.stock = m.stock - used, !.consumed = used]
          ELSE m]

(* handleSellRecipe, the setMaterials updater *)
Consumed(prev, recipe, qty) ==
  [j \in 1..Len(prev) |->
     LET m == prev[j]
         k == FindItem(recipe.items, m.id)
     IN IF k # 0
          THEN LET used == Times(recipe.items[k].qty, qty)
               IN [m EXCEPT !.stock = m.stock - used, !.consumed = OrZero(m.consumed) + used]
          ELSE m]

(* the updater counting the calls, one unit for each *)
Sold_CountsCalls(prev, recipe, qty) ==
  [k \in 1..Len(prev) |->
     LET r == prev[k]
     IN IF r.id = recipe.id THEN [r EXCEPT !.soldCount = OrZero(r.soldCount) + 10] ELSE r]

(* handleSellRecipe, the setRecipes updater *)
Sold(prev, recipe, qty) ==
  [k \in 1..Len(prev) |->
     LET r == prev[k]
     IN IF r.id = recipe.id THEN [r EXCEPT !.soldCount = OrZero(r.soldCount) + qty] ELSE r]

(* newSale numbered by the length of the log *)
NewSale_IdFromLength(recipe, qty) ==
  Sale(Len(salesLog) + 1, recipe.id, qty, OrZero(recipe.price), Now)

(* handleSellRecipe, newSale *)
NewSale(recipe, qty) == Sale(nextSaleId, recipe.id, qty, OrZero(recipe.price), Now)

handleSellRecipe(recipe, qty) ==
  /\ pc = "ready"
  /\ CanAllocate
  /\ IF isNaN(qty) \/ qty <= 0
       THEN /\ lastOp' = Op("sell", "InvalidInput")
            /\ UNCHANGED <<materials, recipes, salesLog, nextSaleId>>
       ELSE IF InsufficientStock(recipe, qty)
         THEN /\ lastOp' = Op("sell", "InsufficientStock")
              /\ UNCHANGED <<materials, recipes, salesLog, nextSaleId>>
         ELSE /\ materials' = Consumed(materials, recipe, qty)
              /\ \A m \in Range(materials') : OrZero(m.consumed) <= 10 * MaxStock
              /\ recipes' = Sold(recipes, recipe, qty)
              /\ salesLog' = Append(salesLog, NewSale(recipe, qty))
              /\ nextSaleId' = nextSaleId + 1
              /\ lastOp' = Op("sell", "none")
  /\ UNCHANGED <<pc, nextMaterialId, nextRecipeId>>
  /\ stored' = Saved(materials', recipes', salesLog')
  /\ issued' = [issued EXCEPT !.sales = Max(@, nextSaleId' - 1)]
  /\ UNCHANGED <<view, parsed, pending>>

(* handleSellRecipe in its two halves.  pending holds the calls that have  *)
(* passed the validation loop and not yet applied their updates, each with *)
(* what its closure holds: the recipe and qty it was called with, and the  *)
(* materials and nextSaleId of the render it was created in.               *)

(* the handler handing control back between the loop and the updates *)
AfterValidation_Yields == "ready"

(* The handler has no await: from the loop it goes on to the setState      *)
(* calls, and React applies their updaters before the next event.          *)
AfterValidation == "commit"

(* handleSellRecipe: the guard on qty and the validation loop *)
sellValidated(recipe, qty) ==
  /\ pc = "ready"
  /\ CanAllocate
  /\ Len(pending) < 2
  /\ IF isNaN(qty) \/ qty <= 0
       THEN /\ lastOp' = Op("sell", "InvalidInput")
            /\ UNCHANGED <<pc, pending>>
       ELSE IF InsufficientStock(recipe, qty)
         THEN /\ lastOp' = Op("sell", "InsufficientStock")
              /\ UNCHANGED <<pc, pending>>
         ELSE /\ \A m \in Range(Consumed(materials, recipe, qty)) :
                   OrZero(m.consumed) <= 10 * MaxStock
              /\ pending' = Append(pending, [recipe |-> recipe, qty |-> qty,
                                             materials |-> materials,
                                             nextSaleId |-> nextSaleId])
              /\ pc' = AfterValidation
              /\ UNCHANGED lastOp
  /\ UNCHANGED <<ledger, stored, issued, view, parsed>>

(* handleSellRecipe: the four setState calls, their updaters applied to    *)
(* the state of the time; newSale takes its id from the closure            *)
sellCommitted ==
  /\ pending # <<>>
  /\ LET call == Head(pending)
         newSale == Sale(call.nextSaleId, call.recipe.id, call.qty,
                         OrZero(call.recipe.price), Now)
     IN /\ materials' = Consumed(materials, call.recipe, call.qty)
        /\ recipes' = Sold(recipes, call.recipe, call.qty)
        /\ salesLog' = Append(salesLog, newSale)
        /\ nextSaleId' = nextSaleId + 1
  /\ pending' = Tail(pending)
  /\ pc' = "ready"
  /\ lastOp' = Op("sell", "none")
  /\ UNCHANGED <<nextMaterialId, nextRecipeId>>
  /\ stored' = Saved(materials', recipes', salesLog')
  /\ issued' = [issued EXCEPT !.sales = Max(@, nextSaleId' - 1)]
  /\ UNCHANGED <<view, parsed>>

(* handleDeleteRecipe, the two filters *)
RecipesWithout(prev, recipeId) ==
  LET Keep(r) == r.id # recipeId IN SelectSeq(prev, Keep)

(* the cascade left out *)
SalesWithout_KeepsAll(prev, recipeId) == prev

(* the cascade filtering on the Sale's own id *)
SalesWithout_BySaleId(prev, recipeId) ==
  LET Keep(sale) == sale.id # recipeId IN SelectSeq(prev, Keep)

SalesWithout(prev, recipeId) ==
  LET Keep(sale) == sale.recipeId # recipeId IN SelectSeq(prev, Keep)

handleDeleteRecipe(recipeId, confirmed) ==
  /\ pc = "ready"
  /\ lastOp' = Op("deleteRecipe", "none")
  /\ IF confirmed
       THEN /\ recipes' = RecipesWithout(recipes, recipeId)
            /\ salesLog' = SalesWithout(salesLog, recipeId)
       ELSE UNCHANGED <<recipes, salesLog>>
  /\ UNCHANGED <<pc, materials, nextMaterialId, nextRecipeId, nextSaleId>>
  /\ stored' = Saved(materials', recipes', salesLog')
  /\ UNCHANGED issued
  /\ UNCHANGED <<view, parsed, pending>>

(* The handlers of the ledger, on the rows the tables show. *)
AddMaterial == \E nameEmpty \in BOOLEAN, stock \in StockInputs :
                 handleAddMaterial(nameEmpty, stock)
StockIn == \E m \in Range(materials), qty \in StockInInputs : handleStockIn(m.id, qty)
DeleteMaterial == \E m \in Range(materials), confirmed \in BOOLEAN :
                    handleDeleteMaterial(m.id, confirmed)
AddRecipe == \E name \in NameInputs, price \in PriceInputs, rows \in RecipeItemInputs :
               handleSubmit(name, price, rows)
SellRecipe == \E recipe \in Range(recipes), qty \in SellQtyInputs :
                handleSellRecipe(recipe, qty)
DeleteRecipe == \E r \in Range(recipes), confirmed \in BOOLEAN :
                  handleDeleteRecipe(r.id, confirmed)

LedgerNext ==
  \/ AddMaterial
  \/ StockIn
  \/ DeleteMaterial
  \/ AddRecipe
  \/ SellRecipe
  \/ DeleteRecipe

SellValidated == \E recipe \in Range(recipes), qty \in SellQtyInputs :
                   sellValidated(recipe, qty)
SellCommitted == sellCommitted

(* the useState initialisers of StatsView *)
ViewConstructed ==
  /\ filterType = "today"
  /\ startDate = Today
  /\ endDate = Today

(* The ledger handlers alone, from the empty ledger (what a restore of an  *)
(* empty backup leaves).                                                   *)
InitLedger ==
  /\ pc = "ready"
  /\ materials = <<>>
  /\ recipes = <<>>
  /\ salesLog = <<>>
  /\ nextMaterialId = 1
  /\ nextRecipeId = 1
  /\ nextSaleId = 1
  /\ stored = Saved(<<>>, <<>>, <<>>)
  /\ lastOp = Op("import", "ImportDone")
  /\ ViewConstructed
  /\ issued = Restored(<<>>, <<>>, <<>>)
  /\ parsed = NoArchive
  /\ pending = <<>>

SpecLedger == InitLedger /\ [][LedgerNext]_vars

(* The ledger handlers with handleSellRecipe given any number. *)
SellAnyQty == \E recipe \in Range(recipes), qty \in AnyQtyInputs :
                handleSellRecipe(recipe, qty)

SellNext ==
  \/ AddMaterial
  \/ StockIn
  \/ DeleteMaterial
  \/ AddRecipe
  \/ SellAnyQty
  \/ DeleteRecipe

SpecSell == InitLedger /\ [][SellNext]_vars

(* --------------------- initial load, reload, import -------------------- *)
(* What a stored or backed-up collection may hold: ids distinct, with gaps *)
(* and out of order.                                                       *)
MaterialsData == { <<>>, << Mat(3, 20, 0), Mat(1, 10, Undefined) >> }
RecipesData == { <<>>, << Rec(2, "yakisoba", 600, << Item(1, 10) >>, 10) >> }
SalesData == { <<>>, << Sale(2, 2, 10, 600, At(Today, 8)) >> }

StorageEntries(data) == {Absent, Unparsable, NotASequence} \cup {Present(d) : d \in data}

(* the counter taken from the size of the loaded collection *)
NextIdOnLoad_FromLength(loaded, current) == Len(loaded) + 1

(* the next-id value the mount effect sets: from the loaded collection, or *)
(* from the state of the first render when the loaded collection is empty  *)
NextIdOnLoad(loaded, current) ==
  IF Len(loaded) > 0 THEN MathMaxId(loaded) + 1 ELSE MathMaxId(current) + 1

(* the mount effect of App *)
InitialLoad ==
  /\ pc = "mount"
  /\ LET loadedMaterials == loadFromStorage(stored.materials, materials)
         loadedRecipes == loadFromStorage(stored.recipes, recipes)
         initialMaterials ==
           [k \in 1..Len(loadedMaterials) |->
              [loadedMaterials[k] EXCEPT !.consumed = NullishOr(@, 0)]]
         initialRecipes ==
           [k \in 1..Len(loadedRecipes) |->
              [loadedRecipes[k] EXCEPT !.soldCount = NullishOr(@, 0),
                                       !.price = NullishOr(@, 0)]]
         initialSales == loadFromStorage(stored.sales, salesLog)
     IN /\ materials' = initialMaterials
        /\ nextMaterialId' = NextIdOnLoad(initialMaterials, materials)
        /\ recipes' = initialRecipes
        /\ nextRecipeId' = NextIdOnLoad(initialRecipes, recipes)
        /\ salesLog' = initialSales
        /\ nextSaleId' = NextIdOnLoad(initialSales, salesLog)
  /\ pc' = "ready"
  /\ lastOp' = Op("load", "none")
  /\ stored' = Saved(materials', recipes', salesLog')
  /\ issued' = Issued(materials', recipes', salesLog')
  /\ UNCHANGED <<view, parsed, pending>>

(* the useState initialisers of App *)
Constructed ==
  /\ materials = DefaultMaterials
  /\ recipes = DefaultRecipes
  /\ salesLog = DefaultSalesLog
  /\ nextMaterialId = DefaultNextMaterialId
  /\ nextRecipeId = DefaultNextRecipeId
  /\ nextSaleId = DefaultNextSaleId

(* The page is opened again: the component is constructed anew over what   *)
(* the save effects left in localStorage.  Not explored once no id can be  *)
(* handed out any more.                                                    *)
Reload ==
  /\ pc = "ready"
  /\ CanAllocate
  /\ pc' = "mount"
  /\ materials' = DefaultMaterials
  /\ recipes' = DefaultRecipes
  /\ salesLog' = DefaultSalesLog
  /\ nextMaterialId' = DefaultNextMaterialId
  /\ nextRecipeId' = DefaultNextRecipeId
  /\ nextSaleId' = DefaultNextSaleId
  /\ lastOp' = Op("reload", "none")
  /\ UNCHANGED <<stored, issued, view, parsed, pending>>

(* the counter taken from the size of the collection *)
NextIdOnImport_FromLength(coll) == Len(coll) + 1

(* the counter taken from the last element *)
NextIdOnImport_FromLast(coll) ==
  IF Len(coll) > 0 THEN coll[Len(coll)].id + 1 ELSE 1

(* Settings.handleImport: the next-id value set after the collections *)
NextIdOnImport(coll) ==
  IF Len(coll) > 0 THEN MathMaxId(coll) + 1 ELSE 1

(* Settings.handleImport.  complete: the archive holds all three files;    *)
(* decodable: JSON.parse accepts the items of every recipe row.            *)
handleImport(confirmed, complete, decodable, newMaterials, newRecipes, newSalesLog) ==
  /\ pc = "ready"
  /\ IF ~confirmed
       THEN /\ lastOp' = Op("import", "none")
            /\ UNCHANGED ledger
       ELSE IF ~complete \/ ~decodable
         THEN /\ lastOp' = Op("import", "MalformedBackup")
              /\ UNCHANGED ledger
         ELSE /\ materials' = newMaterials
              /\ recipes' = newRecipes
              /\ salesLog' = newSalesLog
              /\ nextMaterialId' = NextIdOnImport(newMaterials)
              /\ nextRecipeId' = NextIdOnImport(newRecipes)
              /\ nextSaleId' = NextIdOnImport(newSalesLog)
              /\ lastOp' = Op("import", "ImportDone")
  /\ UNCHANGED pc
  /\ stored' = Saved(materials', recipes', salesLog')
  /\ issued' = IF lastOp' = "ImportDone" THEN Restored(materials', recipes', salesLog')
                                          ELSE issued
  /\ UNCHANGED <<view, parsed, pending>>

(* the files a backup archive is made of *)
ArchiveFiles == {"materials.csv", "recipes.csv", "sales_log.csv"}

(* the check looking for materials.csv only *)
Complete_MaterialsOnly(files) == "materials.csv" \in files

(* !materialsFile || !recipesFile || !salesLogFile, negated *)
Complete(files) ==
  "materials.csv" \in files /\ "recipes.csv" \in files /\ "sales_log.csv" \in files

(* a declined prompt, an archive with one of its files missing, recipe     *)
(* items that do not decode, and every well-formed archive                 *)
Import ==
  \/ handleImport(FALSE, TRUE, TRUE, <<>>, <<>>, <<>>)
  \/ \E missing \in ArchiveFiles :
       handleImport(TRUE, Complete(ArchiveFiles \ {missing}), TRUE, <<>>, <<>>, <<>>)
  \/ \E r \in RecipesData \ {<<>>} :
       handleImport(TRUE, Complete(ArchiveFiles), FALSE, <<>>, r, <<>>)
  \/ \E m \in MaterialsData, r \in RecipesData, s \in SalesData :
       handleImport(TRUE, Complete(ArchiveFiles), TRUE, m, r, s)

(* Settings.handleImport of an accepted archive with every setState call   *)
(* rendered by itself: the six calls follow the awaits of the handler, so  *)
(* they are outside the batch of the event handler and a React without     *)
(* automatic batching renders after each one.  pc names the call to run    *)
(* next; no handler runs before the last call has returned.                *)
ImportParsed ==
  /\ pc = "ready"
  /\ \E m \in MaterialsData, r \in RecipesData, s \in SalesData :
       parsed' = [materials |-> m, recipes |-> r, sales |-> s]
  /\ pc' = "setMaterials"
  /\ UNCHANGED <<ledger, stored, lastOp, issued, view, pending>>

ImportSetMaterials ==
  /\ pc = "setMaterials"
  /\ materials' = parsed.materials
  /\ pc' = "setRecipes"
  /\ UNCHANGED <<recipes, salesLog, nextMaterialId, nextRecipeId, nextSaleId>>
  /\ stored' = Saved(materials', recipes', salesLog')
  /\ UNCHANGED <<lastOp, issued, parsed, pending, view>>

ImportSetRecipes ==
  /\ pc = "setRecipes"
  /\ recipes' = parsed.recipes
  /\ pc' = "setSalesLog"
  /\ UNCHANGED <<materials, salesLog, nextMaterialId, nextRecipeId, nextSaleId>>
  /\ stored' = Saved(materials', recipes', salesLog')
  /\ UNCHANGED <<lastOp, issued, parsed, pending, view>>

ImportSetSalesLog ==
  /\ pc = "setSalesLog"
  /\ salesLog' = parsed.sales
  /\ pc' = "setNextMaterialId"
  /\ UNCHANGED <<materials, recipes, nextMaterialId, nextRecipeId, nextSaleId>>
  /\ stored' = Saved(materials', recipes', salesLog')
  /\ UNCHANGED <<lastOp, issued, parsed, pending, view>>

ImportSetNextMaterialId ==
  /\ pc = "setNextMaterialId"
  /\ nextMaterialId' = NextIdOnImport(parsed.materials)
  /\ pc' = "setNextRecipeId"
  /\ UNCHANGED <<materials, recipes, salesLog, nextRecipeId, nextSaleId>>
  /\ UNCHANGED <<stored, lastOp, issued, parsed, pending, view>>

ImportSetNextRecipeId ==
  /\ pc = "setNextRecipeId"
  /\ nextRecipeId' = NextIdOnImport(parsed.recipes)
  /\ pc' = "setNextSaleId"
  /\ UNCHANGED <<materials, recipes, salesLog, nextMaterialId, nextSaleId>>
  /\ UNCHANGED <<stored, lastOp, issued, parsed, pending, view>>

ImportSetNextSaleId ==
  /\ pc = "setNextSaleId"
  /\ nextSaleId' = NextIdOnImport(parsed.sales)
  /\ pc' = "ready"
  /\ lastOp' = Op("import", "ImportDone")
  /\ UNCHANGED <<materials, recipes, salesLog, nextMaterialId, nextRecipeId>>
  /\ issued' = Restored(materials, recipes, salesLog)
  /\ parsed' = NoArchive
  /\ UNCHANGED <<stored, view, pending>>

Init ==
  /\ pc = "mount"
  /\ Constructed
  /\ stored \in [materials : StorageEntries(MaterialsData),
                  recipes : StorageEntries(RecipesData),
                  sales : StorageEntries(SalesData)]
  /\ lastOp = Op("construct", "none")
  /\ ViewConstructed
  /\ issued = Restored(<<>>, <<>>, <<>>)
  /\ parsed = NoArchive
  /\ pending = <<>>

Next ==
  \/ InitialLoad
  \/ Import
  \/ AddMaterial
  \/ StockIn
  \/ DeleteMaterial
  \/ AddRecipe
  \/ SellRecipe
  \/ DeleteRecipe

Spec == Init /\ [][Next]_vars

(* The ledger handlers with the page opened again at any time. *)
ReloadNext ==
  \/ LedgerNext
  \/ Reload
  \/ InitialLoad

SpecReload == InitLedger /\ [][ReloadNext]_vars

(* The ledger handlers and the import with its state updates applied one  *)
(* by one (Spec has them applied in one render).                           *)
RestoreNext ==
  \/ LedgerNext
  \/ ImportParsed
  \/ ImportSetMaterials
  \/ ImportSetRecipes
  \/ ImportSetSalesLog
  \/ ImportSetNextMaterialId
  \/ ImportSetNextRecipeId
  \/ ImportSetNextSaleId

SpecRestore == InitLedger /\ [][RestoreNext]_vars

(* The ledger handlers and the import, with handleSellRecipe in its two   *)
(* halves.                                                                 *)
CommitNext ==
  \/ Import
  \/ AddMaterial
  \/ StockIn
  \/ DeleteMaterial
  \/ AddRecipe
  \/ DeleteRecipe
  \/ SellValidated
  \/ SellCommitted

SpecCommit == InitLedger /\ [][CommitNext]_vars

(* ------------------------------ StatsView ------------------------------ *)
(* the value of a cleared <input type="date"> *)
NoDate == 0

(* the fill of the hourly arrays: no Sale in that hour *)
Null == -3000

(* the label of a Sale whose Recipe is gone *)
Placeholder == "(deleted recipe)"

(* Date.prototype.getHours *)
getHours(timestamp) == timestamp % 24

(* parseDateString(date) with setHours(0, 0, 0, 0) *)
StartOfDay(date) == At(date, 0)

(* parseDateString(date) with setHours(23, 59, 59, 999), to the hour *)
EndOfDay(date) == At(date, 23)

(* the useMemo of StatsView, the filter: the log the sums are taken over *)
FilteredLog(log, type, start, end) ==
  IF type = "today"
    THEN LET Keep(sale) == /\ sale.timestamp >= StartOfDay(Today)
                           /\ sale.timestamp <= EndOfDay(Today)
         IN SelectSeq(log, Keep)
  ELSE IF type = "custom" /\ start # NoDate /\ end # NoDate
    THEN IF StartOfDay(start) <= EndOfDay(end)
           THEN LET Keep(sale) == /\ sale.timestamp >= StartOfDay(start)
                                  /\ sale.timestamp <= EndOfDay(end)
                IN SelectSeq(log, Keep)
           ELSE log
  ELSE log

(* Map.get(recipeId): the index of the entry kept under the key, 0 if none *)
FindEntry(entries, recipeId) ==
  FirstOf({k \in 1..Len(entries) : entries[k].id = recipeId})

(* recipes.find(r => r.id === sale.recipeId), then its name or the label *)
NameOf(rs, recipeId) ==
  LET k == FirstOf({j \in 1..Len(rs) : rs[j].id = recipeId})
  IN IF k = 0 THEN Placeholder ELSE rs[k].name

(* the hourly array filled with zeros *)
EmptySeries_Zero == [h \in 1..24 |-> 0]

(* Array(24).fill(null) *)
EmptySeries == [h \in 1..24 |-> Null]

(* recipeEntry.qty += sale.qty; recipeEntry.sales += saleAmount *)
Accumulated(entry, qty, saleAmount) ==
  [entry EXCEPT !.qty = @ + qty, !.sales = @ + saleAmount]

(* the body of log.forEach: one Sale added to the sums *)
AddSale(acc, sale, rs) ==
  LET saleAmount == Times(sale.qty, OrZero(sale.pricePerUnit))
      name == NameOf(rs, sale.recipeId)
      k == FindEntry(acc.perRecipe, sale.recipeId)
      recipeEntry == IF k = 0 THEN [id |-> sale.recipeId, name |-> name, qty |-> 0, sales |-> 0]
                              ELSE acc.perRecipe[k]
      hour == getHours(sale.timestamp)
      h == FindEntry(acc.hourlySales, sale.recipeId)
      series == IF h = 0 THEN [id |-> sale.recipeId, name |-> name, data |-> EmptySeries]
                         ELSE acc.hourlySales[h]
      filled == [series EXCEPT !.data[hour + 1] = (IF @ = Null THEN 0 ELSE @) + sale.qty]
  IN [summary |-> [totalQty |-> acc.summary.totalQty + sale.qty,
                   totalSales |-> acc.summary.totalSales + saleAmount],
      perRecipe |-> IF k = 0
                      THEN Append(acc.perRecipe, Accumulated(recipeEntry, sale.qty, saleAmount))
                      ELSE [acc.perRecipe EXCEPT
                              ![k] = Accumulated(recipeEntry, sale.qty, saleAmount)],
      hourlySales |-> IF h = 0 THEN Append(acc.hourlySales, filled)
                               ELSE [acc.hourlySales EXCEPT ![h] = filled]]

(* log.forEach over the filtered log, from the empty sums *)
RECURSIVE ForEachSale(_, _, _)
ForEachSale(acc, log, rs) ==
  IF log = <<>> THEN acc
  ELSE ForEachSale(AddSale(acc, Head(log), rs), Tail(log), rs)

(* the useMemo of StatsView: summary, perRecipeStats and the datasets of    *)
(* hourlySalesData                                                         *)
computeStats(log, rs, type, start, end) ==
  LET sums == ForEachSale([summary |-> [totalQty |-> 0, totalSales |-> 0],
                           perRecipe |-> <<>>, hourlySales |-> <<>>],
                          FilteredLog(log, type, start, end), rs)
  IN [summary |-> sums.summary,
      perRecipeStats |-> sums.perRecipe,
      hourlySalesData |->
        [k \in 1..Len(sums.hourlySales) |->
           [label |-> sums.hourlySales[k].name, data |-> sums.hourlySales[k].data]]]

(* what StatsView renders *)
stats == computeStats(salesLog, recipes, filterType, startDate, endDate)

(* the buttons and the date inputs of StatsView *)
FilterTypes == {"today", "all", "custom"}
DateInputs == {NoDate, Today - 1, Today, Today + 1}

setFilterType(type) ==
  /\ pc = "stats"
  /\ filterType' = type
  /\ UNCHANGED <<pc, ledger, stored, lastOp, issued, parsed, pending, startDate, endDate>>

setStartDate(date) ==
  /\ pc = "stats"
  /\ filterType = "custom"
  /\ startDate' = date
  /\ UNCHANGED <<pc, ledger, stored, lastOp, issued, parsed, pending, filterType, endDate>>

setEndDate(date) ==
  /\ pc = "stats"
  /\ filterType = "custom"
  /\ endDate' = date
  /\ UNCHANGED <<pc, ledger, stored, lastOp, issued, parsed, pending, filterType, startDate>>

SetFilterType == \E type \in FilterTypes : setFilterType(type)
SetStartDate == \E date \in DateInputs : setStartDate(date)
SetEndDate == \E date \in DateInputs : setEndDate(date)

(* The Recipes and the Sales the statistics are taken over: Sales of two   *)
(* Recipes and of a Recipe that is gone, on three days, at the first and   *)
(* the last hour of a day and in between.                                  *)
StatsRecipesData ==
  { <<>>,
    << Rec(1, "butatama", 600, << Item(1, 10) >>, 0),
       Rec(2, "yakisoba", 750, << Item(1, 10) >>, 0) >> }

StatsSalesData ==
  { <<>>,
    << Sale(1, 1, 20, 600, At(Today, 8)), Sale(2, 2, 10, 750, At(Today, 8)) >>,
    << Sale(1, 2, 10, 750, At(Today - 1, 23)), Sale(2, 1, 10, 600, At(Today, 0)),
       Sale(3, 2, 5, 750, At(Today, 23)), Sale(4, 1, 20, 600, At(Today, 0)),
       Sale(5, 3, 10, 500, At(Today + 1, 0)), Sale(6, 2, 10, 750, At(Today, 23)) >>,
    << Sale(4, 3, 10, 500, At(Today - 1, 12)), Sale(7, 1, 30, 600, At(Today + 1, 12)),
       Sale(9, 3, 20, 500, At(Today + 1, 12)) >> }

(* StatsView over a ledger just restored from a backup *)
InitStats ==
  /\ pc = "stats"
  /\ materials = <<>>
  /\ recipes \in StatsRecipesData
  /\ salesLog \in StatsSalesData
  /\ nextMaterialId = NextIdOnImport(materials)
  /\ nextRecipeId = NextIdOnImport(recipes)
  /\ nextSaleId = NextIdOnImport(salesLog)
  /\ stored = Saved(materials, recipes, salesLog)
  /\ lastOp = Op("import", "ImportDone")
  /\ ViewConstructed
  /\ issued = Restored(materials, recipes, salesLog)
  /\ parsed = NoArchive
  /\ pending = <<>>

StatsNext ==
  \/ SetFilterType
  \/ SetStartDate
  \/ SetEndDate

SpecStats == InitStats /\ [][StatsNext]_vars

(* ------------------- the ledger on JavaScript Numbers ------------------- *)
(* stock, consumed and item qty are IEEE 754 doubles.  A non-negative       *)
(* double below 128 that is a multiple of 2^-53 is held here as the pair    *)
(* <<hi, lo>> of the integer  hi * Limb + lo,  its value counted in units   *)
(* of 2^-53; sums and differences of such doubles are multiples of 2^-53    *)
(* again, and are rounded to 53 significant bits, ties to even.             *)
Limb == 2^30
Significand == 53

BitLength(n) == CHOOSE k \in 0..30 : n < 2^k /\ (k = 0 \/ n >= 2^(k - 1))

(* the double nearest to the exact hi * Limb + lo *)
RoundToDouble(hi, lo) ==
  LET drop == IF BitLength(hi) + 30 > Significand
                THEN BitLength(hi) + 30 - Significand ELSE 0
      unit == 2^drop
      rest == lo % unit
      down == lo - rest
      up == \/ 2 * rest > unit
            \/ 2 * rest = unit /\ (down \div unit) % 2 = 1
      rounded == IF up THEN down + unit ELSE down
  IN IF rounded = Limb THEN <<hi + 1, 0>> ELSE <<hi, rounded>>

(* a + b *)
Plus(a, b) ==
  LET lo == a[2] + b[2]
  IN RoundToDouble(a[1] + b[1] + lo \div Limb, lo % Limb)

(* a - b, for a >= b *)
Minus(a, b) ==
  LET lo == a[2] - b[2]
  IN IF lo < 0 THEN RoundToDouble(a[1] - b[1] - 1, lo + Limb)
               ELSE RoundToDouble(a[1] - b[1], lo)

(* a < b *)
Less(a, b) == a[1] < b[1] \/ (a[1] = b[1] /\ a[2] < b[2])

(* The double of a quantity given in tenths: the integers, and the literals *)
(* 0.5 (0x1.0000000000000p-1), 0.7 (0x1.6666666666666p-1) and 0.8           *)
(* (0x1.999999999999ap-1) of the seed recipes.                              *)
Double(tenths) ==
  CASE tenths % 10 = 0 -> <<(tenths \div 10) * 2^23, 0>>
    [] tenths = 5 -> <<4194304, 0>>
    [] tenths = 7 -> <<5872025, 644245094>>
    [] tenths = 8 -> <<6710886, 429496730>>

(* the useState initialisers of materials and recipes, as Numbers *)
SeedMaterials ==
  [k \in 1..Len(DefaultMaterials) |->
     [DefaultMaterials[k] EXCEPT !.stock = Double(@), !.consumed = Double(@)]]

SeedRecipes ==
  [k \in 1..Len(DefaultRecipes) |->
     [DefaultRecipes[k] EXCEPT !.items =
        [i \in 1..Len(@) |-> [@[i] EXCEPT !.qty = Double(@)]]]]

(* handleSellRecipe(recipe, 1), the validation loop: item.qty * 1 is        *)
(* item.qty                                                                 *)
InsufficientNumber(recipe) ==
  \E i \in 1..Len(recipe.items) :
    LET item == recipe.items[i]
        k == FindMaterial(materials, item.materialId)
    IN k = 0 \/ Less(materials[k].stock, item.qty)

(* handleSellRecipe(recipe, 1), the setMaterials updater *)
ConsumedNumber(prev, recipe) ==
  [j \in 1..Len(prev) |->
     LET m == prev[j]
         k == FindItem(recipe.items, m.id)
     IN IF k # 0
          THEN LET used == recipe.items[k].qty
               IN [m EXCEPT !.stock = Minus(m.stock, used),
                            !.consumed = Plus(m.consumed, used)]
          ELSE m]

(* the sales recorded on top of the seed are bounded *)
MaxSales == 3

(* handleSellRecipe(recipe, 1), as the button of RecipesTable calls it *)
sellOne(recipe) ==
  /\ pc = "ready"
  /\ Len(salesLog) < Len(DefaultSalesLog) + MaxSales
  /\ IF InsufficientNumber(recipe)
       THEN /\ lastOp' = Op("sell", "InsufficientStock")
            /\ UNCHANGED <<materials, recipes, salesLog, nextSaleId>>
       ELSE /\ materials' = ConsumedNumber(materials, recipe)
            /\ recipes' = Sold(recipes, recipe, 10)
            /\ salesLog' = Append(salesLog, NewSale(recipe, 10))
            /\ nextSaleId' = nextSaleId + 1
            /\ lastOp' = Op("sell", "none")
  /\ UNCHANGED <<pc, nextMaterialId, nextRecipeId>>
  /\ stored' = Saved(materials', recipes', salesLog')
  /\ issued' = [issued EXCEPT !.sales = Max(@, nextSaleId' - 1)]
  /\ UNCHANGED <<view, parsed, pending>>

(* handleStockIn(materialId, qty) with qty a whole number of units, while   *)
(* the stock stays within MaxStock units of the seed's                      *)
stockInUnits(materialId, units) ==
  /\ pc = "ready"
  /\ \A k \in 1..Len(materials) :
       materials[k].id = materialId =>
         ~Less(Plus(SeedMaterials[k].stock, Double(10 * MaxStock)),
               Plus(materials[k].stock, Double(10 * units)))
  /\ materials' = [k \in 1..Len(materials) |->
                     LET m == materials[k]
                     IN IF m.id = materialId
                          THEN [m EXCEPT !.stock = Plus(m.stock, Double(10 * units))]
                          ELSE m]
  /\ lastOp' = Op("stockIn", "none")
  /\ UNCHANGED <<pc, recipes, salesLog, nextMaterialId, nextRecipeId, nextSaleId>>
  /\ stored' = Saved(materials', recipes', salesLog')
  /\ UNCHANGED issued
  /\ UNCHANGED <<view, parsed, pending>>

SellOne == \E recipe \in Range(recipes) : sellOne(recipe)
StockInUnits == \E m \in Range(materials) : stockInUnits(m.id, MaxStock)

(* the page opened on an empty localStorage: the mount effect leaves the   *)
(* seed in place                                                           *)
InitNumber ==
  /\ pc = "ready"
  /\ materials = SeedMaterials
  /\ recipes = SeedRecipes
  /\ salesLog = DefaultSalesLog
  /\ nextMaterialId = DefaultNextMaterialId
  /\ nextRecipeId = DefaultNextRecipeId
  /\ nextSaleId = DefaultNextSaleId
  /\ stored = Saved(materials, recipes, salesLog)
  /\ lastOp = Op("load", "none")
  /\ ViewConstructed
  /\ issued = [materials |-> DefaultNextMaterialId - 1,
               recipes |-> DefaultNextRecipeId - 1,
               sales |-> DefaultNextSaleId - 1]
  /\ parsed = NoArchive
  /\ pending = <<>>

NumberNext ==
  \/ SellOne
  \/ StockInUnits
  \/ DeleteRecipe

SpecNumber == InitNumber /\ [][NumberNext]_vars

(* ============================== properties ============================= *)
ValidSellQty == {q \in SellQtyInputs : ~isNaN(q) /\ q > 0}

(* the Materials with a given id *)
MaterialsOf(id) == {m \in Range(materials) : m.id = id}

(* some item of the recipe references a missing Material, or a Material    *)
(* with stock < item qty * quantity                                        *)
SomeItemShort(recipe, quantity) ==
  \E i \in 1..Len(recipe.items) :
    \/ MaterialsOf(recipe.items[i].materialId) = {}
    \/ \E m \in MaterialsOf(recipe.items[i].materialId) :
         m.stock < Times(recipe.items[i].qty, quantity)

(* C1: after any sequence of addMaterial, stockIn, addRecipe, recordSale,  *)
(* deleteMaterial and deleteRecipe, every Material's stock is >= 0.        *)
C1_StockNeverNegative == \A m \in Range(materials) : m.stock >= 0

(* a sale has used a Material up *)
C1_Witness ==
  /\ salesLog # <<>>
  /\ \E m \in Range(materials) : m.stock = 0 /\ m.consumed > 0

(* C2: a recordSale of a recipe with an item, at any position, whose       *)
(* Material is missing or holds less than qty * quantity is rejected and   *)
(* leaves Materials, Recipes, Sales and the three counters as they were.   *)
C2_AllOrNothing ==
  [][ \A recipe \in Range(recipes), quantity \in ValidSellQty :
        (handleSellRecipe(recipe, quantity) /\ SomeItemShort(recipe, quantity))
          => (lastOp' = "InsufficientStock" /\ UNCHANGED ledger) ]_vars

(* a sale was rejected for the only recipe, whose first item is in stock   *)
(* and whose second item is not                                            *)
C2_Witness ==
  /\ lastOp = "InsufficientStock"
  /\ Len(recipes) = 1
  /\ Len(recipes[1].items) = 2
  /\ \E m \in MaterialsOf(recipes[1].items[1].materialId) :
       m.stock >= recipes[1].items[1].qty * 2
  /\ \A m \in MaterialsOf(recipes[1].items[2].materialId) :
       m.stock < recipes[1].items[2].qty

(* the sum of qty over the items of the recipe that reference the id *)
RECURSIVE QtyListed(_, _)
QtyListed(items, id) ==
  IF items = <<>> THEN 0
  ELSE (IF Head(items).materialId = id THEN Head(items).qty ELSE 0)
       + QtyListed(Tail(items), id)

(* C3: a successful recordSale decrements the stock of every Material by   *)
(* quantity times the qty of each item that lists it, once per occurrence  *)
(* of the Material in recipe.items, increments its consumed by the same    *)
(* amount, and leaves the Materials no item lists as they were.            *)
C3_EveryItemApplied ==
  [][ \A recipe \in Range(recipes), quantity \in ValidSellQty :
        (handleSellRecipe(recipe, quantity) /\ ~SomeItemShort(recipe, quantity))
          => /\ Len(materials') = Len(materials)
             /\ \A k \in 1..Len(materials) :
                  LET used == Times(QtyListed(recipe.items, materials[k].id), quantity)
                  IN materials'[k] =
                       [materials[k] EXCEPT !.stock = materials[k].stock - used,
                                            !.consumed = materials[k].consumed + used] ]_vars

(* C4: a successful recordSale adds quantity to the soldCount of exactly   *)
(* that Recipe, appends one Sale (id = the Sale id counter before the      *)
(* call, recipe.id, quantity, the recipe's price), advances the counter by *)
(* one and leaves the earlier Sales as they were; and on any recordSale    *)
(* some stock goes down if and only if a Sale is appended.                 *)
C4_SaleRecorded ==
  [][ \A recipe \in Range(recipes), quantity \in SellQtyInputs :
        handleSellRecipe(recipe, quantity)
          => /\ (quantity \in ValidSellQty /\ ~SomeItemShort(recipe, quantity))
                  => /\ Len(recipes') = Len(recipes)
                     /\ \A k \in 1..Len(recipes) :
                          recipes'[k] =
                            IF recipes[k] = recipe
                              THEN [recipe EXCEPT !.soldCount = recipe.soldCount + quantity]
                              ELSE recipes[k]
                     /\ salesLog' = salesLog \o
                          << [id |-> nextSaleId, recipeId |-> recipe.id,
                              qty |-> quantity, pricePerUnit |-> recipe.price,
                              timestamp |-> Now] >>
                     /\ nextSaleId' = nextSaleId + 1
             /\ (\E k \in 1..Len(materials) : materials'[k].stock < materials[k].stock)
                  <=> (Len(salesLog') = Len(salesLog) + 1) ]_vars

(* two Sales of the second of two Recipes, the first Recipe never sold *)
C4_Witness ==
  /\ Len(recipes) = 2
  /\ Len(salesLog) = 2
  /\ recipes[1].soldCount = 0
  /\ recipes[2].soldCount = salesLog[1].qty + salesLog[2].qty
  /\ salesLog[2].id = nextSaleId - 1

(* some Recipe of the ledger has an item with this materialId *)
Referenced(materialId) ==
  \E r \in Range(recipes) : \E i \in 1..Len(r.items) : r.items[i].materialId = materialId

(* C5: deleteMaterial raises MaterialInUse, with the Materials unchanged,  *)
(* if and only if some Recipe has an item with that materialId; otherwise  *)
(* the deletion the operator confirms removes the Materials with that id   *)
(* and no other; Recipes, Sales and the counters stay as they were.        *)
C5_DeleteMaterial ==
  [][ \A m \in Range(materials), confirmed \in BOOLEAN :
        handleDeleteMaterial(m.id, confirmed)
          => /\ (lastOp' = "MaterialInUse") <=> Referenced(m.id)
             /\ Referenced(m.id) => materials' = materials
             /\ (~Referenced(m.id) /\ confirmed)
                  => /\ Range(materials') = Range(materials) \ MaterialsOf(m.id)
                     /\ Len(materials') = Len(materials) - 1
             /\ UNCHANGED <<recipes, salesLog, nextMaterialId, nextRecipeId, nextSaleId>> ]_vars

(* a deletion was refused while a Material is referenced only by the       *)
(* second item of a Recipe, after another Material had been deleted        *)
C5_Witness ==
  /\ lastOp = "MaterialInUse"
  /\ Len(materials) < nextMaterialId - 1
  /\ \E m \in Range(materials) :
       /\ Referenced(m.id)
       /\ \A r \in Range(recipes) : r.items[1].materialId # m.id

(* C6: deleteRecipe, confirmed, removes the Recipe with that id and every  *)
(* Sale with that recipeId, and leaves the other Recipes, the Sales of     *)
(* other recipes and all Materials as they were.                           *)
C6_DeleteRecipe ==
  [][ \A r \in Range(recipes) :
        handleDeleteRecipe(r.id, TRUE)
          => /\ Range(recipes') = {x \in Range(recipes) : x.id # r.id}
             /\ Range(salesLog') = {x \in Range(salesLog) : x.recipeId # r.id}
             /\ Len(recipes') = Cardinality({k \in 1..Len(recipes) : recipes[k].id # r.id})
             /\ Len(salesLog') =
                  Cardinality({k \in 1..Len(salesLog) : salesLog[k].recipeId # r.id})
             /\ materials' = materials ]_vars

(* a Recipe was deleted with its Sale, and the Sale of another Recipe is   *)
(* still in the log                                                        *)
C6_Witness ==
  /\ lastOp = "none"
  /\ Len(recipes) = 1
  /\ nextRecipeId = 3
  /\ Len(salesLog) = 1
  /\ nextSaleId = 3
  /\ salesLog[1].recipeId = recipes[1].id

(* C7: every Sale's recipeId is the id of a Recipe of the ledger. *)
C7_NoDanglingSale ==
  \A k \in 1..Len(salesLog) : \E r \in Range(recipes) : r.id = salesLog[k].recipeId

(* the first Sale is gone with its Recipe and a later Sale is in the log *)
C7_Witness ==
  /\ salesLog # <<>>
  /\ \A k \in 1..Len(salesLog) : salesLog[k].id > 1
  /\ nextRecipeId - 1 > Len(recipes)

(* C8: every item of every Recipe has the id of a Material of the ledger. *)
C8_ItemsResolve ==
  \A r \in Range(recipes) : \A i \in 1..Len(r.items) :
    MaterialsOf(r.items[i].materialId) # {}

UniqueIds(coll) ==
  \A i, j \in 1..Len(coll) : coll[i].id = coll[j].id => i = j

IsMaxIdPlusOne(n, coll) ==
  IF coll = <<>> THEN n = 1
  ELSE (n - 1) \in Ids(coll) /\ \A id \in Ids(coll) : id <= n - 1

(* C10: after a successful restore each next-id counter is the largest id  *)
(* of its restored collection plus one, 1 for an empty collection.         *)
C10_CountersAfterRestore ==
  lastOp = "ImportDone"
    => /\ IsMaxIdPlusOne(nextMaterialId, materials)
       /\ IsMaxIdPlusOne(nextRecipeId, recipes)
       /\ IsMaxIdPlusOne(nextSaleId, salesLog)

(* a restore of Materials 3, 1, no Recipe and one Sale with id 2 *)
C10_Witness ==
  /\ lastOp = "ImportDone"
  /\ Len(materials) = 2
  /\ nextMaterialId = 4
  /\ recipes = <<>>
  /\ nextRecipeId = 1
  /\ nextSaleId = 3

(* C11: the initial load leaves each next-id counter at the largest id of   *)
(* the collection it loaded plus one, at 1 when the loaded collection is   *)
(* empty (also when storage holds an empty array).                         *)
C11_CountersAfterLoad ==
  [][ InitialLoad
        => /\ IsMaxIdPlusOne(nextMaterialId', materials')
           /\ IsMaxIdPlusOne(nextRecipeId', recipes')
           /\ IsMaxIdPlusOne(nextSaleId', salesLog') ]_vars

(* a handler run that handed out an id of the collection: the page is up   *)
(* before and after the step and the counter went up by one                *)
HandedOut(counter, counterAfter) ==
  pc = "ready" /\ pc' = "ready" /\ counterAfter = counter + 1

(* the id of the entity appended last *)
LastId(coll) == coll[Len(coll)].id

(* C12: every id addMaterial, addRecipe and recordSale hand out is greater *)
(* than every id its collection has held before, also after deletions and  *)
(* after the page was opened again over the persisted collections.         *)
C12_IdsNeverReused ==
  [][ /\ HandedOut(nextMaterialId, nextMaterialId') => LastId(materials') > issued.materials
      /\ HandedOut(nextRecipeId, nextRecipeId') => LastId(recipes') > issued.recipes
      /\ HandedOut(nextSaleId, nextSaleId') => LastId(salesLog') > issued.sales ]_vars

(* C12 as amended: every id addMaterial, addRecipe and recordSale hand out  *)
(* is greater than every id its collection holds at that time, also after  *)
(* deletions and after the page was opened again; the id of a deleted      *)
(* entity may be handed out again.                                         *)
C12_IdsAboveExisting ==
  [][ /\ HandedOut(nextMaterialId, nextMaterialId')
           => \A id \in Ids(materials) : LastId(materials') > id
      /\ HandedOut(nextRecipeId, nextRecipeId')
           => \A id \in Ids(recipes) : LastId(recipes') > id
      /\ HandedOut(nextSaleId, nextSaleId')
           => \A id \in Ids(salesLog) : LastId(salesLog') > id ]_vars

(* the Material with the largest id was deleted and the page was opened    *)
(* again: the counter stands at an id the collection has held before, and  *)
(* addMaterial can hand it out                                             *)
C12_Witness ==
  /\ pc = "ready"
  /\ CanAllocate
  /\ materials # <<>>
  /\ nextMaterialId <= issued.materials
  /\ \A id \in Ids(materials) : id < nextMaterialId

(* ------------------- the statistics, as the spec words them ------------ *)
(* the calendar day of a timestamp *)
DayOf(timestamp) == timestamp \div 24

(* the Sale passes the filter of StatsView: today's Sales, every Sale, or  *)
(* the Sales of the days startDate..endDate, none when a date is absent or *)
(* the range is inverted                                                   *)
Passes(sale) ==
  CASE filterType = "today" -> DayOf(sale.timestamp) = Today
    [] filterType = "all" -> TRUE
    [] filterType = "custom" ->
         /\ startDate # NoDate
         /\ endDate # NoDate
         /\ startDate <= DayOf(sale.timestamp)
         /\ DayOf(sale.timestamp) <= endDate

(* the positions in salesLog of the Sales that pass the filter *)
Passing == {k \in 1..Len(salesLog) : Passes(salesLog[k])}

(* the Sales that pass the filter and belong to the recipe *)
PassingOf(recipeId) == {k \in Passing : salesLog[k].recipeId = recipeId}

QtyAt == [k \in 1..Len(salesLog) |-> salesLog[k].qty]
AmountAt == [k \in 1..Len(salesLog) |-> Times(salesLog[k].qty, salesLog[k].pricePerUnit)]

(* the sum of f over the positions K *)
RECURSIVE SumOf(_, _)
SumOf(f, K) ==
  IF K = {} THEN 0
  ELSE LET k == CHOOSE x \in K : TRUE IN f[k] + SumOf(f, K \ {k})

(* the positions at which a recipeId occurs for the first time among the   *)
(* Sales that pass the filter, and the i-th of them                        *)
FirstOccurrences ==
  {k \in Passing : \A j \in Passing : j < k => salesLog[j].recipeId # salesLog[k].recipeId}

NthFirst(i) ==
  CHOOSE k \in FirstOccurrences : Cardinality({j \in FirstOccurrences : j < k}) = i - 1

(* the name of the Recipe with the id, the placeholder if there is none *)
CurrentName(recipeId) ==
  IF \E r \in Range(recipes) : r.id = recipeId
    THEN (CHOOSE r \in Range(recipes) : r.id = recipeId).name
    ELSE Placeholder

(* a custom filter with a date absent or with startDate after endDate *)
BadRange ==
  /\ filterType = "custom"
  /\ (startDate = NoDate \/ endDate = NoDate \/ startDate > endDate)

(* C13: with a custom filter whose startDate is after its endDate, or with *)
(* startDate or endDate absent, the summary is zeroed (totalQty = 0,       *)
(* totalSales = 0) and perRecipeStats and the hourly series are empty,     *)
(* whatever the Sales are.                                                 *)
C13_EmptyOnBadRange ==
  BadRange => /\ stats.summary = [totalQty |-> 0, totalSales |-> 0]
              /\ stats.perRecipeStats = <<>>
              /\ stats.hourlySalesData = <<>>

(* C14: for every Sale collection and filter, summary.totalQty is the sum  *)
(* of qty over exactly the Sales that pass the filter and totalSales the   *)
(* sum of qty * pricePerUnit over the same Sales; filter all passes every  *)
(* Sale.                                                                   *)
C14_SummaryTotals ==
  /\ stats.summary.totalQty = SumOf(QtyAt, Passing)
  /\ stats.summary.totalSales = SumOf(AmountAt, Passing)
  /\ filterType = "all" => Passing = 1..Len(salesLog)

(* C15: perRecipeStats has exactly one entry per distinct recipeId of the  *)
(* Sales that pass the filter, in the order of first occurrence; an entry  *)
(* holds the sums of qty and of qty * pricePerUnit over the passing Sales  *)
(* of its recipe, and the name of the current Recipe or the placeholder.   *)
C15_PerRecipeStats ==
  /\ Len(stats.perRecipeStats) = Cardinality(FirstOccurrences)
  /\ \A i \in 1..Cardinality(FirstOccurrences) :
       LET recipeId == salesLog[NthFirst(i)].recipeId
           entry == stats.perRecipeStats[i]
       IN /\ entry.id = recipeId
          /\ entry.qty = SumOf(QtyAt, PassingOf(recipeId))
          /\ entry.sales = SumOf(AmountAt, PassingOf(recipeId))
          /\ entry.name = CurrentName(recipeId)

(* C16: for each distinct recipeId of the Sales that pass the filter there *)
(* is an hourly series of exactly 24 buckets (hours 0..23); bucket h holds *)
(* the sum of qty of the recipe's passing Sales of hour h, and the no-data *)
(* marker, not zero, exactly when no such Sale falls in hour h.            *)
C16_HourlySeries ==
  \A i \in 1..Cardinality(FirstOccurrences) :
    LET recipeId == salesLog[NthFirst(i)].recipeId
    IN /\ i <= Len(stats.hourlySalesData)
       /\ stats.hourlySalesData[i].label = CurrentName(recipeId)
       /\ Len(stats.hourlySalesData[i].data) = 24
       /\ \A hour \in 0..23 :
            LET inHour == {k \in PassingOf(recipeId) : salesLog[k].timestamp % 24 = hour}
                bucket == stats.hourlySalesData[i].data[hour + 1]
            IN /\ inHour = {} <=> bucket = Null
               /\ inHour # {} => bucket = SumOf(QtyAt, inHour)

(* filter all over the Sales (2 of recipe 1, 1 of recipe 2, both at hour   *)
(* 8): buckets 2 and 1 at hour 8, no data at hours 7 and 9                 *)
C16_Witness ==
  /\ filterType = "all"
  /\ Len(salesLog) = 2
  /\ Len(stats.hourlySalesData) = 2
  /\ stats.hourlySalesData[1].data[9] = 20
  /\ stats.hourlySalesData[2].data[9] = 10
  /\ stats.hourlySalesData[1].data[8] = Null
  /\ stats.hourlySalesData[2].data[10] = Null

(* the stored entries of a collection are the loaded ones, in order *)
SameIds(loaded, value) ==
  /\ Len(loaded) = Len(value)
  /\ \A k \in 1..Len(value) : loaded[k].id = value[k].id

C18_LoadFallback ==
  [][ InitialLoad
        => /\ IF stored.materials.raw = "array"
                THEN SameIds(materials', stored.materials.value) ELSE materials' = <<>>
           /\ IF stored.recipes.raw = "array"
                THEN SameIds(recipes', stored.recipes.value) ELSE recipes' = <<>>
           /\ IF stored.sales.raw = "array"
                THEN salesLog' = stored.sales.value ELSE salesLog' = <<>> ]_vars

(* C19: across every step of addMaterial, stockIn, addRecipe, recordSale,  *)
(* deleteMaterial and deleteRecipe, the consumed of a Material that exists *)
(* before and after the step, and the soldCount of such a Recipe, do not   *)
(* decrease.                                                               *)
C19_CountersMonotone ==
  [][ /\ \A i \in 1..Len(materials), j \in 1..Len(materials') :
           materials'[j].id = materials[i].id
             => materials'[j].consumed >= materials[i].consumed
      /\ \A i \in 1..Len(recipes), j \in 1..Len(recipes') :
           recipes'[j].id = recipes[i].id
             => recipes'[j].soldCount >= recipes[i].soldCount ]_vars

(* a Material consumed by two Sales of a Recipe, with a stock-in between *)
C19_Witness ==
  /\ Len(salesLog) = 2
  /\ \E m \in Range(materials) : m.consumed = 20 /\ m.stock = 10
  /\ \E r \in Range(recipes) : r.soldCount = 20

(* the quantity is a whole number of units, one or more *)
PositiveInteger(quantity) == ~isNaN(quantity) /\ quantity > 0 /\ quantity % 10 = 0

(* C20: recordSale with a quantity that is not a positive integer (zero,   *)
(* negative, not a number, or a positive fraction such as one half) is     *)
(* rejected as invalid input and leaves Materials, Recipes, Sales and the  *)
(* Sale id counter as they were.                                           *)
C20_InvalidQuantity ==
  [][ \A recipe \in Range(recipes), quantity \in AnyQtyInputs :
        (handleSellRecipe(recipe, quantity) /\ ~PositiveInteger(quantity))
          => /\ lastOp' = "InvalidInput"
             /\ UNCHANGED <<materials, recipes, salesLog, nextSaleId>> ]_vars

(* the items of the form that name a Material of the ledger with a       *)
(* positive amount, in the order of the form                               *)
Remaining(recipeItems) ==
  LET Kept(item) == /\ MaterialsOf(item.materialId) # {}
                    /\ ~isNaN(item.qty)
                    /\ item.qty > 0
  IN SelectSeq(recipeItems, Kept)

(* C21: addRecipe drops every item whose materialId names no Material or  *)
(* whose qty is not positive and appends a Recipe holding the remaining    *)
(* items in their order, with soldCount 0 and the id of the Recipe id      *)
(* counter, which advances by one; with an empty name or no remaining item *)
(* the Recipes and the Recipe id counter stay as they were.                *)
C21_AddRecipe ==
  [][ \A name \in NameInputs, price \in PriceInputs, recipeItems \in RecipeItemInputs :
        handleSubmit(name, price, recipeItems)
          => IF name = "" \/ Len(Remaining(recipeItems)) = 0
               THEN UNCHANGED <<recipes, nextRecipeId>>
               ELSE /\ recipes' = Append(recipes,
                          Rec(nextRecipeId, name, price, Remaining(recipeItems), 0))
                    /\ nextRecipeId' = nextRecipeId + 1 ]_vars

(* a collection is replaced once the call after its own is the next to run *)
MaterialsReplaced ==
  pc \in {"setRecipes", "setSalesLog", "setNextMaterialId", "setNextRecipeId", "setNextSaleId"}
RecipesReplaced ==
  pc \in {"setSalesLog", "setNextMaterialId", "setNextRecipeId", "setNextSaleId"}
SalesReplaced ==
  pc \in {"setNextMaterialId", "setNextRecipeId", "setNextSaleId"}

BelowCounter(coll, counter) == \A e \in Range(coll) : e.id < counter

(* C22: during a restore the collections are replaced in the order         *)
(* materials, recipes, sales and the counter of a collection is set anew   *)
(* before the next collection is replaced: once the Recipes are replaced   *)
(* every Material id is below the Material id counter, and once the Sales  *)
(* are replaced every Recipe id is below the Recipe id counter.            *)
C22_CountersInterleaved ==
  /\ RecipesReplaced => (MaterialsReplaced /\ BelowCounter(materials, nextMaterialId))
  /\ SalesReplaced => (RecipesReplaced /\ BelowCounter(recipes, nextRecipeId))

(* C23: a sale is committed to the ledger it was validated against.  While *)
(* a validated call has not applied its updates, the Materials and the     *)
(* Sale id counter are those its validation read; so no Material's stock   *)
(* goes below zero and no two Sales share an id.                           *)
C23_ValidatedStateCommitted ==
  /\ \A i \in 1..Len(pending) : /\ pending[i].materials = materials
                                /\ pending[i].nextSaleId = nextSaleId
  /\ \A m \in Range(materials) : m.stock >= 0
  /\ UniqueIds(salesLog)

(* a second sale has passed its validation on a stock that its commit will *)
(* bring to zero                                                           *)
C23_Witness ==
  /\ pc = "commit"
  /\ Len(pending) = 1
  /\ Len(salesLog) = 1
  /\ salesLog[1].id + 1 = pending[1].nextSaleId
  /\ \E m \in Range(materials) :
       /\ OrZero(m.consumed) > 0
       /\ \E item \in Range(pending[1].recipe.items) :
            item.materialId = m.id /\ m.stock = Times(item.qty, pending[1].qty)

(* the sum stock + consumed of the program, position by position *)
OnHandAndConsumed(ms) == [k \in 1..Len(ms) |-> Plus(ms[k].stock, ms[k].consumed)]

(* C24: recordSale conserves material quantity: for every Material the sum *)
(* stock + consumed is the same before and after a sale of any recipe,     *)
(* successful or rejected.                                                 *)
C24_Conservation ==
  [][ \A recipe \in Range(recipes) :
        sellOne(recipe) => OnHandAndConsumed(materials') = OnHandAndConsumed(materials) ]_vars

(* the positions of the Sales of a recipe *)
SalesOf(recipeId) == {k \in 1..Len(salesLog) : salesLog[k].recipeId = recipeId}

(* C25: from the empty ledger, the soldCount of every Recipe is the sum of *)
(* qty over the Sales with its id, and the statistics over all Sales give  *)
(* for every Recipe that qty (no entry for a Recipe never sold).           *)
C25_SoldCountIsSalesTotal ==
  LET perRecipeStats == computeStats(salesLog, recipes, "all", NoDate, NoDate).perRecipeStats
  IN \A r \in Range(recipes) :
       /\ r.soldCount = SumOf(QtyAt, SalesOf(r.id))
       /\ LET k == FindEntry(perRecipeStats, r.id)
          IN IF k = 0 THEN r.soldCount = 0 ELSE perRecipeStats[k].qty = r.soldCount

(* a Recipe sold twice, one unit each time, next to a Recipe never sold *)
C25_Witness ==
  /\ \E r \in Range(recipes) :
       /\ r.soldCount = 20
       /\ Cardinality(SalesOf(r.id)) = 2
  /\ \E r \in Range(recipes) : r.soldCount = 0 /\ SalesOf(r.id) = {}

====
